---- MODULE Spec2Model ----
(***************************************************************************)
(* Model of the VM monitoring script src/vm_trigger.py: the three          *)
(* reachability probes, the classifier built on them, the thread-pool      *)
(* fan-out over the configured targets, the per-target Slack alert and     *)
(* the end-of-run summary; and of save_geolocation of                      *)
(* src/geolocation/geolocation.py on the geolocation table.                *)
(***************************************************************************)
EXTENDS Integers, Sequences, FiniteSets, TLC

VARIABLES
    VMS_TO_MONITOR,\* the configured targets, in dict order: <<name, ip>> pairs
    net,           \* what the network answers for each target's name
    probe,         \* inputs/outputs of one classification (probe specification)
    pc,            \* position of the main thread
    loop_vars,     \* the loop's local variables vm_name, result and e
    submitted,     \* number of targets already handed to executor.submit
    queue,         \* the executor's work queue (target names, FIFO)
    worker,        \* the targets the pool threads are running, one per busy thread
    future,        \* the future of each submitted target
    yielded,       \* targets whose future as_completed has already yielded
    results,       \* the list `results`
    down_servers,  \* the list `down_servers`
    alerts,        \* every requests.post made by send_slack_notification
    summaries,     \* every requests.post made by send_summary_notification
    db             \* the geolocation table and the save_geolocation calls made on it

vars == <<VMS_TO_MONITOR, net, probe, pc, loop_vars, submitted, queue, worker, future, yielded,
          results, down_servers, alerts, summaries, db>>

\* ------------------------------------------------------------------ bounds

\* Number of targets in VMS_TO_MONITOR of the modelled runs.
MaxTargets == 2

\* Number of targets of the runs that fill the pool (pool specification).
MaxPoolTargets == 11

\* Largest number of targets that are not up in the summary specification;
\* each of them can leave two entries in down_servers (the message shows
\* 10, and this gives up to 12).
MaxDown == 6

\* Largest number of UP results next to them in the summary specification.
MaxUp == 1

\* ------------------------------------------------------------- environment

\* config.COMMON_PORTS: the ordered list of ports the port scan tries.
COMMON_PORTS == <<22, 80, 443>>

\* Outcome of sock.connect_ex((ip, port)): it returns 0 on success, an errno
\* otherwise, or the socket calls raise (e.g. an address that cannot be
\* resolved).
Connected == [raised |-> FALSE, result |-> 0]
Refused == [raised |-> FALSE, result |-> 111]
SockError == [raised |-> TRUE, result |-> 0]
TcpOutcomes == {Connected, Refused, SockError}

\* Outcome of requests.get(url): a response with a status code, or an
\* exception (connection refused, timeout, TLS failure).
HttpOk == [raised |-> FALSE, status_code |-> 200]
HttpClientError == [raised |-> FALSE, status_code |-> 499]
HttpServerError == [raised |-> FALSE, status_code |-> 500]
HttpUnavailable == [raised |-> FALSE, status_code |-> 503]
HttpRaised == [raised |-> TRUE, status_code |-> 0]

\* Outcome of running the ping command: its exit code, or subprocess.run
\* raising (timeout, no ping binary).
PingReplied == [raised |-> FALSE, returncode |-> 0]
PingNoReply == [raised |-> FALSE, returncode |-> 1]
PingFailed == [raised |-> FALSE, returncode |-> 2]
PingRaised == [raised |-> TRUE, returncode |-> 0]
PingOutcomes == {PingReplied, PingNoReply, PingFailed, PingRaised}

\* ------------------------------------------------------------------ probes

\* check_tcp_port: True exactly when connect_ex returned 0; any exception is
\* swallowed and reported as False.
check_tcp_port(conn) ==
    IF conn.raised THEN FALSE ELSE conn.result = 0

\* return False, None of check_any_port_open: the port of a failed scan.
NoPort == 0

\* check_any_port_open: the first port of `ports`, in order, that is open.
RECURSIVE any_port_from(_, _, _)
any_port_from(tcp, ports, i) ==
    IF i > Len(ports) THEN [ok |-> FALSE, port |-> NoPort]
    ELSE IF check_tcp_port(tcp[ports[i]]) THEN [ok |-> TRUE, port |-> ports[i]]
    ELSE any_port_from(tcp, ports, i + 1)

check_any_port_open(tcp, ports) == any_port_from(tcp, ports, 1)

\* The two nested loops of check_http_service: for protocol in ['http',
\* 'https'], for port in [80, 443, 8080, 3000, 8000].
HttpProtocols == <<"http", "https">>
HttpPorts == <<80, 443, 8080, 3000, 8000>>

\* The (protocol, port) pairs in the order the loops visit them.
HttpAttempts ==
    [k \in 1..(Len(HttpProtocols) * Len(HttpPorts)) |->
        <<HttpProtocols[((k - 1) \div Len(HttpPorts)) + 1],
          HttpPorts[((k - 1) % Len(HttpPorts)) + 1]>>]

HttpPairs == {HttpAttempts[k] : k \in 1..Len(HttpAttempts)}

\* Variant of http_attempt_succeeds that also accepts a 500.
http_attempt_succeeds_le500(resp) ==
    IF resp.raised THEN FALSE ELSE resp.status_code <= 500

\* One iteration of the inner loop: a response with status_code < 500 ends
\* the probe with success; an exception or a 5xx goes on to the next pair.
http_attempt_succeeds(resp) ==
    IF resp.raised THEN FALSE ELSE resp.status_code < 500

\* f"{protocol}:{port}"
http_service(pair) == pair[1] \o ":" \o ToString(pair[2])

\* check_http_service: the pairs requested, in order, and the result.
\* `requests` is the list of pairs a GET was issued to.
RECURSIVE http_from(_, _, _)
http_from(http, k, requested) ==
    IF k > Len(HttpAttempts)
    THEN [ok |-> FALSE, service |-> "None", requests |-> requested]
    ELSE IF http_attempt_succeeds(http[HttpAttempts[k]])
    THEN [ok |-> TRUE, service |-> http_service(HttpAttempts[k]),
          requests |-> Append(requested, HttpAttempts[k])]
    ELSE http_from(http, k + 1, Append(requested, HttpAttempts[k]))

check_http_service(http) == http_from(http, 1, <<>>)

\* subprocess.run(ping_command, capture_output=True, text=True, timeout=10,
\* stdout=DEVNULL, stderr=DEVNULL): subprocess.run rejects capture_output
\* together with stdout or stderr by raising ValueError before any process
\* is started; otherwise the command runs and `ping` is what it does.
subprocess_run(capture_output, stdout_given, stderr_given, ping) ==
    IF capture_output /\ (stdout_given \/ stderr_given)
    THEN [raised |-> TRUE, returncode |-> 0]
    ELSE ping

\* check_vm_status_ping: returncode == 0 of the subprocess.run call; any
\* exception is swallowed and reported as False.
check_vm_status_ping(ping) ==
    LET result == subprocess_run(TRUE, TRUE, TRUE, ping)
    IN  IF result.raised THEN FALSE ELSE result.returncode = 0

\* Variant of classify that asks HTTP before the port scan.
classify_http_first(port_scan, http_check, ping_ok) ==
    IF http_check.ok
    THEN [status |-> "UP", method |-> "HTTP " \o http_check.service]
    ELSE IF port_scan.ok
    THEN [status |-> "UP", method |-> "TCP Port " \o ToString(port_scan.port)]
    ELSE IF ping_ok
    THEN [status |-> "UP", method |-> "ICMP Ping"]
    ELSE [status |-> "DOWN", method |-> "All checks failed"]

\* The decision of comprehensive_server_check on what the three probe
\* functions returned: port scan first, then HTTP, then ping.
classify(port_scan, http_check, ping_ok) ==
    IF port_scan.ok
    THEN [status |-> "UP", method |-> "TCP Port " \o ToString(port_scan.port)]
    ELSE IF http_check.ok
    THEN [status |-> "UP", method |-> "HTTP " \o http_check.service]
    ELSE IF ping_ok
    THEN [status |-> "UP", method |-> "ICMP Ping"]
    ELSE [status |-> "DOWN", method |-> "All checks failed"]

\* comprehensive_server_check on an address whose network behaves as env.
comprehensive_server_check(env) ==
    classify(check_any_port_open(env.tcp, COMMON_PORTS),
             check_http_service(env.http),
             check_vm_status_ping(env.ping))

\* check_single_vm: the result dict, or the unexpected exception that
\* escapes it (env.exc is its message, "None" when nothing is raised).
NoResult == [name |-> "", ip |-> "", status |-> "NOT_CHECKED", method |-> ""]

check_single_vm(vm_name, ip_address, env) ==
    IF env.exc # "None"
    THEN [exception |-> env.exc, result |-> NoResult]
    ELSE [exception |-> "None",
          result |-> [name |-> vm_name, ip |-> ip_address,
                      status |-> comprehensive_server_check(env).status,
                      method |-> comprehensive_server_check(env).method]]

\* ------------------------------------------------ pool and loop locals

\* ThreadPoolExecutor(max_workers=10)
max_workers == 10

\* The loop's local variables vm_name, result and e before the first
\* iteration; e is "None" outside the except clause.
NoLocals == [vm_name |-> "None", result |-> NoResult, e |-> "None"]

\* ------------------------------------------------ geolocation table

\* A save_geolocation call that has not been made.
NoCall ==
    [lead_id |-> 0, returned |-> "None", existing |-> FALSE, db_error |-> FALSE,
     rolled_back |-> FALSE, status |-> "None"]

\* No database connection: the state of `db` in the monitoring script.
NoDb == [table |-> <<>>, open |-> FALSE, calls |-> 0, last |-> NoCall]

\* ------------------------------------------------- probe specification

\* Environments of one address.  `exc` is the message of an unexpected
\* exception raised inside check_single_vm ("None" when it runs normally).
AllRefused == [p \in {COMMON_PORTS[i] : i \in 1..Len(COMMON_PORTS)} |-> Refused]
AllRaised == [pair \in HttpPairs |-> HttpRaised]

Env(tcp, http, ping, exc) == [tcp |-> tcp, http |-> http, ping |-> ping, exc |-> exc]

\* Every combination of error / 499 / 500 over the ten pairs.
HttpBoundary == [HttpPairs -> {HttpRaised, HttpClientError, HttpServerError}]

\* A few HTTP behaviours for the inputs that vary the other two probes.
HttpFew ==
    {AllRaised,
     [pair \in HttpPairs |-> HttpUnavailable],
     [AllRaised EXCEPT ![<<"https", 443>>] = HttpOk],
     [AllRaised EXCEPT ![<<"http", 3000>>] = HttpClientError]}

ProbeInputs ==
    {Env(AllRefused, http, PingNoReply, "None") : http \in HttpBoundary}
    \cup
    {Env(tcp, http, ping, "None") :
        tcp \in [DOMAIN AllRefused -> TcpOutcomes],
        http \in HttpFew,
        ping \in PingOutcomes}

NoVerdict == [status |-> "NOT_CHECKED", method |-> ""]

NotProbed(env) ==
    [env |-> env, done |-> FALSE,
     port_scan |-> [ok |-> FALSE, port |-> NoPort],
     http_check |-> [ok |-> FALSE, service |-> "None", requests |-> <<>>],
     ping_ok |-> FALSE,
     verdict |-> NoVerdict]

\* One call of comprehensive_server_check on probe.env, with what each of
\* the three probe functions returns on that address.
Classify ==
    /\ pc = "probe"
    /\ ~probe.done
    /\ probe' = [env |-> probe.env, done |-> TRUE,
                 port_scan |-> check_any_port_open(probe.env.tcp, COMMON_PORTS),
                 http_check |-> check_http_service(probe.env.http),
                 ping_ok |-> check_vm_status_ping(probe.env.ping),
                 verdict |-> comprehensive_server_check(probe.env)]
    /\ UNCHANGED <<db, loop_vars, VMS_TO_MONITOR, net, pc, submitted, queue, worker, future,
                   yielded, results, down_servers, alerts, summaries>>

InitProbe ==
    /\ probe \in {NotProbed(env) : env \in ProbeInputs}
    /\ pc = "probe"
    /\ VMS_TO_MONITOR = <<>>
    /\ net = <<>>
    /\ submitted = 0
    /\ queue = <<>>
    /\ worker = {}
    /\ future = <<>>
    /\ yielded = {}
    /\ results = <<>>
    /\ down_servers = <<>>
    /\ alerts = <<>>
    /\ summaries = <<>>
    /\ loop_vars = NoLocals
    /\ db = NoDb

NextProbe == Classify

SpecProbe == InitProbe /\ [][NextProbe]_vars

\* ------------------------------------------------------------ alerting

\* Outcome of requests.post(SLACK_WEBHOOK_URL, ...): a response, a
\* requests.exceptions.RequestException (network error, timeout), or an
\* exception of another class escaping requests.post (e.g. the OSError
\* requests raises for an unusable CA bundle).
PostOk == [raised |-> "None", message |-> "", status_code |-> 200]
PostRejected == [raised |-> "None", message |-> "", status_code |-> 500]
PostNetworkError ==
    [raised |-> "RequestException", message |-> "connection failed", status_code |-> 0]
PostCrashed ==
    [raised |-> "OSError", message |-> "invalid CA bundle", status_code |-> 0]
PostOutcomes == {PostOk, PostRejected, PostNetworkError, PostCrashed}

\* method_text of send_slack_notification.
method_text(method) ==
    IF method = "All checks failed"
    THEN "Check Method: All methods tried (TCP ports, HTTP, Ping)"
    ELSE "Last Successful Check: " \o method

\* Variant of send_slack_notification without the except clause: a
\* RequestException leaves the function like any other exception.
send_slack_notification_uncaught(vm_name, ip_address, status, method, resp) ==
    [post |-> [name |-> vm_name, ip |-> ip_address, status |-> status,
               method_text |-> method_text(method), response |-> resp],
     raised |-> IF resp.raised = "None" THEN "None" ELSE resp.message,
     returned |-> resp.raised = "None" /\ resp.status_code = 200]

\* send_slack_notification: one requests.post of the alert for the target.
\* status_code == 200 returns True, another status returns False, a
\* RequestException is caught and returns False; any other exception
\* leaves the function.  `post` is the request made.
send_slack_notification(vm_name, ip_address, status, method, resp) ==
    [post |-> [name |-> vm_name, ip |-> ip_address, status |-> status,
               method_text |-> method_text(method), response |-> resp],
     raised |-> IF resp.raised \in {"None", "RequestException"}
                THEN "None" ELSE resp.message,
     returned |-> resp.raised = "None" /\ resp.status_code = 200]

\* server_fields[:10]
SummaryFieldLimit == 10

Min(a, b) == IF a < b THEN a ELSE b

\* send_summary_notification: nothing for an empty list; otherwise one
\* requests.post whose text carries down_count/total_servers and whose
\* section lists the first 10 entries.  Only a RequestException is caught;
\* a status other than 200 is ignored.
send_summary_notification(down, total_servers, resp) ==
    IF down = <<>>
    THEN [posts |-> <<>>, raised |-> "None"]
    ELSE LET server_fields ==
                 [i \in 1..Len(down) |->
                     [name |-> down[i].name, ip |-> down[i].ip,
                      status |-> down[i].status]]
         IN  [posts |-> <<[down_count |-> Len(down),
                           total_servers |-> total_servers,
                           fields |-> SubSeq(server_fields, 1,
                                             Min(SummaryFieldLimit, Len(server_fields))),
                           response |-> resp]>>,
              raised |-> IF resp.raised \in {"None", "RequestException"}
                         THEN "None" ELSE resp.message]

\* ------------------------------------------------------------- the run

vm_name_of(i) == "vm" \o ToString(i)
ip_addr_of(i) == "10.0.0." \o ToString(i)

\* VMS_TO_MONITOR with n targets.
Targets(n) == [i \in 1..n |-> <<vm_name_of(i), ip_addr_of(i)>>]

Names == {VMS_TO_MONITOR[i][1] : i \in 1..Len(VMS_TO_MONITOR)}

\* VMS_TO_MONITOR[vm_name]
ip_of(vm_name) ==
    VMS_TO_MONITOR[CHOOSE i \in 1..Len(VMS_TO_MONITOR) : VMS_TO_MONITOR[i][1] = vm_name][2]

\* Addresses of the modelled runs: one with an open port, one that only
\* answers ping, one that answers nothing, one whose check raises.
ScenPortOpen ==
    Env([AllRefused EXCEPT ![80] = Connected], AllRaised, PingNoReply, "None")
ScenPingOnly == Env(AllRefused, AllRaised, PingReplied, "None")
ScenDead == Env(AllRefused, AllRaised, PingNoReply, "None")
ScenFault == Env(AllRefused, AllRaised, PingNoReply, "check failed")
Scenarios == {ScenPortOpen, ScenPingOnly, ScenDead, ScenFault}

NotSubmitted == [state |-> "none", exception |-> "None", result |-> NoResult]

\* executor.submit(check_single_vm, vm_name, ip_addr) for the next target of
\* the dict comprehension: the work item is queued and its future is pending.
Submit ==
    /\ pc = "submit"
    /\ submitted < Len(VMS_TO_MONITOR)
    /\ LET t == VMS_TO_MONITOR[submitted + 1][1]
       IN  /\ queue' = Append(queue, t)
           /\ future' = [future EXCEPT ![t].state = "pending"]
    /\ submitted' = submitted + 1
    /\ UNCHANGED <<db, loop_vars, VMS_TO_MONITOR, net, probe, pc, worker, yielded, results,
                   down_servers, alerts, summaries>>

\* All targets are submitted: the main thread enters `for future in
\* as_completed(future_to_vm)`.
EnterLoop ==
    /\ pc = "submit"
    /\ submitted = Len(VMS_TO_MONITOR)
    /\ pc' = "collect"
    /\ UNCHANGED <<db, loop_vars, VMS_TO_MONITOR, net, probe, submitted, queue, worker, future,
                   yielded, results, down_servers, alerts, summaries>>

\* Variant of Start in which a thread takes the next work item whether or
\* not it has finished its current one.
StartWhileBusy ==
    /\ queue # <<>>
    /\ \/ worker' = worker \cup {Head(queue)}
       \/ \E t \in worker : worker' = (worker \ {t}) \cup {Head(queue)}
    /\ queue' = Tail(queue)
    /\ future' = [future EXCEPT ![Head(queue)].state = "running"]
    /\ UNCHANGED <<db, loop_vars, VMS_TO_MONITOR, net, probe, pc, submitted, yielded, results,
                   down_servers, alerts, summaries>>

\* A pool thread that runs nothing takes the oldest queued work item.  The
\* pool has at most max_workers threads, each running one work item at a
\* time, so a thread is free while fewer than max_workers items are run.
Start ==
    /\ Cardinality(worker) < max_workers
    /\ queue # <<>>
    /\ worker' = worker \cup {Head(queue)}
    /\ queue' = Tail(queue)
    /\ future' = [future EXCEPT ![Head(queue)].state = "running"]
    /\ UNCHANGED <<db, loop_vars, VMS_TO_MONITOR, net, probe, pc, submitted, yielded, results,
                   down_servers, alerts, summaries>>

\* The check_single_vm call a thread runs for t returns or raises: the
\* future gets the result or the exception and the thread is free again.
Finish(t) ==
    /\ t \in worker
    /\ LET outcome == check_single_vm(t, ip_of(t), net[t])
       IN  future' = [future EXCEPT ![t] =
                         [state |-> "finished",
                          exception |-> outcome.exception,
                          result |-> outcome.result]]
    /\ worker' = worker \ {t}
    /\ UNCHANGED <<db, loop_vars, VMS_TO_MONITOR, net, probe, pc, submitted, queue, yielded,
                   results, down_servers, alerts, summaries>>

\* A requests.post that has been sent and has not returned yet.
PostPending == [raised |-> "pending", message |-> "", status_code |-> 0]

\* as_completed yields a finished future (lines 310-314): vm_name is its
\* target and future.result() returns the check's result, which is appended
\* to results, or raises the check's exception, which enters the except
\* clause.  An UP result ends the iteration.
Collect(t) ==
    /\ pc = "collect"
    /\ t \in Names \ yielded
    /\ future[t].state = "finished"
    /\ yielded' = yielded \cup {t}
    /\ IF future[t].exception # "None"
       THEN /\ loop_vars' = [vm_name |-> t, result |-> loop_vars.result,
                             e |-> future[t].exception]
            /\ results' = results
            /\ pc' = "except"
       ELSE /\ loop_vars' = [vm_name |-> t, result |-> future[t].result,
                             e |-> "None"]
            /\ results' = Append(results, future[t].result)
            /\ pc' = IF future[t].result.status # "UP" THEN "mark_down"
                     ELSE "collect"
    /\ UNCHANGED <<db, VMS_TO_MONITOR, net, probe, submitted, queue, worker, future,
                   down_servers, alerts, summaries>>

\* Line 318: down_servers.append(result) for a result that is not UP.
MarkDown ==
    /\ pc = "mark_down"
    /\ down_servers' = Append(down_servers, loop_vars.result)
    /\ pc' = "alert"
    /\ UNCHANGED <<db, loop_vars, VMS_TO_MONITOR, net, probe, submitted, queue,
                   worker, future, yielded, results, alerts, summaries>>

\* Line 319: send_slack_notification(result['name'], ...) issues its
\* requests.post; the main thread waits for it (timeout=10) while the pool
\* threads go on.
SendAlert ==
    /\ pc = "alert"
    /\ LET result == loop_vars.result
       IN  alerts' = Append(alerts,
                        send_slack_notification(result.name, result.ip,
                            result.status, result.method, PostPending).post)
    /\ pc' = "posting"
    /\ UNCHANGED <<db, loop_vars, VMS_TO_MONITOR, net, probe, submitted, queue,
                   worker, future, yielded, results, down_servers, summaries>>

\* The requests.post of line 319 returns or raises: the call returns to the
\* loop, which goes on to the next future, or its exception is caught by the
\* except clause of line 326.
AlertReturns ==
    /\ pc = "posting"
    /\ \E resp \in PostOutcomes :
          LET result == loop_vars.result
              sent == send_slack_notification(result.name, result.ip,
                          result.status, result.method, resp)
          IN  /\ alerts' = [alerts EXCEPT ![Len(alerts)] = sent.post]
              /\ IF sent.raised = "None"
                 THEN pc' = "collect" /\ loop_vars' = loop_vars
                 ELSE pc' = "except"
                      /\ loop_vars' = [loop_vars EXCEPT !.e = sent.raised]
    /\ UNCHANGED <<db, VMS_TO_MONITOR, net, probe, submitted, queue, worker, future,
                   yielded, results, down_servers, summaries>>

\* error_result of the except clause (lines 328-334).
error_result(vm_name, e) ==
    [name |-> vm_name, ip |-> ip_of(vm_name), status |-> "ERROR", method |-> e]

\* Line 335: results.append(error_result).
ExceptResult ==
    /\ pc = "except"
    /\ results' = Append(results, error_result(loop_vars.vm_name, loop_vars.e))
    /\ pc' = "except_mark"
    /\ UNCHANGED <<db, loop_vars, VMS_TO_MONITOR, net, probe, submitted, queue,
                   worker, future, yielded, down_servers, alerts, summaries>>

\* Lines 336-337: down_servers.append(error_result) and the print.
ExceptMarkDown ==
    /\ pc = "except_mark"
    /\ down_servers' = Append(down_servers,
                              error_result(loop_vars.vm_name, loop_vars.e))
    /\ pc' = "except_alert"
    /\ UNCHANGED <<db, loop_vars, VMS_TO_MONITOR, net, probe, submitted, queue,
                   worker, future, yielded, results, alerts, summaries>>

\* Line 338: send_slack_notification(vm_name, ..., "ERROR", str(e)) issues
\* its requests.post.
SendExceptAlert ==
    /\ pc = "except_alert"
    /\ alerts' = Append(alerts,
                    send_slack_notification(loop_vars.vm_name,
                        ip_of(loop_vars.vm_name), "ERROR", loop_vars.e,
                        PostPending).post)
    /\ pc' = "except_posting"
    /\ UNCHANGED <<db, loop_vars, VMS_TO_MONITOR, net, probe, submitted, queue,
                   worker, future, yielded, results, down_servers, summaries>>

\* The requests.post of line 338 returns or raises: the except clause ends
\* and the loop goes on, or the exception leaves the loop and the with
\* block, whose exit waits for the pool before the exception ends the
\* script.  Either way the except clause is left, which unbinds e.
ExceptAlertReturns ==
    /\ pc = "except_posting"
    /\ \E resp \in PostOutcomes :
          LET sent == send_slack_notification(loop_vars.vm_name,
                          ip_of(loop_vars.vm_name), "ERROR", loop_vars.e, resp)
          IN  /\ alerts' = [alerts EXCEPT ![Len(alerts)] = sent.post]
              /\ pc' = IF sent.raised = "None" THEN "collect" ELSE "unwinding"
              /\ loop_vars' = [loop_vars EXCEPT !.e = "None"]
    /\ UNCHANGED <<db, VMS_TO_MONITOR, net, probe, submitted, queue, worker, future,
                   yielded, results, down_servers, summaries>>

\* Variant of ExitLoop that leaves the loop and the with block without
\* waiting for the remaining futures or for the pool.
ExitLoopEarly ==
    /\ pc = "collect"
    /\ pc' = "summary"
    /\ UNCHANGED <<db, loop_vars, VMS_TO_MONITOR, net, probe, submitted, queue, worker, future,
                   yielded, results, down_servers, alerts, summaries>>

\* Every future has been yielded: the loop ends and the with block exits
\* (executor.shutdown(wait=True)).
ExitLoop ==
    /\ pc = "collect"
    /\ yielded = Names
    /\ worker = {}
    /\ pc' = "summary"
    /\ UNCHANGED <<db, loop_vars, VMS_TO_MONITOR, net, probe, submitted, queue, worker, future,
                   yielded, results, down_servers, alerts, summaries>>

\* The with block exits on an exception: shutdown(wait=True) lets the pool
\* finish every submitted check, then the exception ends the script.
Unwind ==
    /\ pc = "unwinding"
    /\ queue = <<>>
    /\ worker = {}
    /\ pc' = "aborted"
    /\ UNCHANGED <<db, loop_vars, VMS_TO_MONITOR, net, probe, submitted, queue, worker, future,
                   yielded, results, down_servers, alerts, summaries>>

\* The final summary (lines 346-361): total_servers = len(results); the
\* summary notification is sent when down_servers is not empty.
Summary ==
    /\ pc = "summary"
    /\ \E resp \in PostOutcomes :
          LET sent == IF down_servers # <<>> /\ Len(down_servers) >= 1
                      THEN send_summary_notification(down_servers, Len(results), resp)
                      ELSE [posts |-> <<>>, raised |-> "None"]
          IN  /\ summaries' = summaries \o sent.posts
              /\ pc' = IF sent.raised = "None" THEN "done" ELSE "aborted"
    /\ UNCHANGED <<db, loop_vars, VMS_TO_MONITOR, net, probe, submitted, queue, worker, future,
                   yielded, results, down_servers, alerts>>

IdleProbe == NotProbed(ScenDead)

Init ==
    /\ \E n \in 0..MaxTargets : VMS_TO_MONITOR = Targets(n)
    /\ net \in [Names -> Scenarios]
    /\ probe = IdleProbe
    /\ pc = "submit"
    /\ submitted = 0
    /\ queue = <<>>
    /\ worker = {}
    /\ future = [t \in Names |-> NotSubmitted]
    /\ yielded = {}
    /\ results = <<>>
    /\ down_servers = <<>>
    /\ alerts = <<>>
    /\ summaries = <<>>
    /\ loop_vars = NoLocals
    /\ db = NoDb

Next ==
    \/ Submit
    \/ EnterLoop
    \/ Start
    \/ \E t \in Names : Finish(t)
    \/ \E t \in Names : Collect(t)
    \/ MarkDown
    \/ SendAlert
    \/ AlertReturns
    \/ ExceptResult
    \/ ExceptMarkDown
    \/ SendExceptAlert
    \/ ExceptAlertReturns
    \/ ExitLoop
    \/ Unwind
    \/ Summary

Spec == Init /\ [][Next]_vars

\* ------------------------------------------------- the pool when it fills

\* Runs with more targets than the pool has threads, every target with an
\* open port, followed on the executor: the submissions, the main thread
\* entering the loop, and the pool threads taking and finishing checks.
\* The loop body acts on none of queue, worker and future.
InitPool ==
    /\ \E n \in (max_workers + 1)..MaxPoolTargets : VMS_TO_MONITOR = Targets(n)
    /\ net = [t \in Names |-> ScenPortOpen]
    /\ probe = IdleProbe
    /\ pc = "submit"
    /\ submitted = 0
    /\ queue = <<>>
    /\ worker = {}
    /\ future = [t \in Names |-> NotSubmitted]
    /\ yielded = {}
    /\ results = <<>>
    /\ down_servers = <<>>
    /\ alerts = <<>>
    /\ summaries = <<>>
    /\ loop_vars = NoLocals
    /\ db = NoDb

NextPool ==
    \/ Submit
    \/ EnterLoop
    \/ Start
    \/ \E t \in Names : Finish(t)

SpecPool == InitPool /\ [][NextPool]_vars

\* ----------------------------------------- save_geolocation on a table

\* Lead ids of the modelled calls are 1..MaxLeadId.
MaxLeadId == 2

\* Number of save_geolocation calls made on the connection.
MaxCalls == 3

\* geo_data as get_geolocation returns it on success (coordinates only).
Coordinates ==
    {[latitude |-> 12, longitude |-> 77], [latitude |-> 28, longitude |-> 76]}

GeoRow(id, latitude, longitude, type) ==
    [id |-> id, latitude |-> latitude, longitude |-> longitude, type |-> type]

\* Tables the connection can find: empty, with a 'lead' row, with a row of
\* another type, with both for one id.
InitialTables ==
    {<<>>,
     <<GeoRow(1, 12, 77, "lead")>>,
     <<GeoRow(1, 12, 77, "customer")>>,
     <<GeoRow(2, 28, 76, "customer"), GeoRow(2, 28, 76, "lead")>>}

\* What the database does to each statement of one call: the SELECT, the
\* INSERT, conn.commit() and conn.rollback() each succeed or raise (a lost
\* connection makes the statement and the rollback raise).
DbOutcomes ==
    [select : {"ok", "error"}, insert : {"ok", "error"},
     commit : {"ok", "error"}, rollback : {"ok", "error"}]

\* SELECT id FROM geolocation WHERE id = %s AND type = 'lead'; fetchone()
select_existing(table, lead_id) ==
    \E i \in 1..Len(table) : table[i].id = lead_id /\ table[i].type = "lead"

\* The except branch of save_geolocation: conn.rollback(), then return
\* False; an exception of conn.rollback() leaves the function.
save_failed(table, lead_id, out) ==
    [table |-> table,
     returned |-> IF out.rollback = "ok" THEN "False" ELSE "raised",
     existing |-> FALSE, db_error |-> TRUE,
     rolled_back |-> out.rollback = "ok"]

\* save_geolocation(conn, lead_id, geo_data): the committed table after the
\* call and what the call returned ("True", "False", or "raised" when an
\* exception leaves it).
save_geolocation(table, lead_id, geo_data, out) ==
    IF out.select = "error"
    THEN save_failed(table, lead_id, out)
    ELSE IF select_existing(table, lead_id)
    THEN [table |-> table, returned |-> "False", existing |-> TRUE,
          db_error |-> FALSE, rolled_back |-> FALSE]
    ELSE IF out.insert = "error" \/ out.commit = "error"
    THEN save_failed(table, lead_id, out)
    ELSE [table |-> Append(table, GeoRow(lead_id, geo_data.latitude,
                                         geo_data.longitude, "lead")),
          returned |-> "True", existing |-> FALSE, db_error |-> FALSE,
          rolled_back |-> FALSE]

\* One iteration of the loop of process_leads from the save on (lines
\* 209-226): the call, then 'success' when it returned True and 'skipped'
\* otherwise; an exception leaving the call ends process_leads, whose
\* finally clause closes the connection.
SaveCall ==
    /\ pc = "geo"
    /\ db.open
    /\ db.calls < MaxCalls
    /\ \E lead_id \in 1..MaxLeadId, geo_data \in Coordinates, out \in DbOutcomes :
          LET saved == save_geolocation(db.table, lead_id, geo_data, out)
          IN  db' = [table |-> saved.table,
                     open |-> saved.returned # "raised",
                     calls |-> db.calls + 1,
                     last |-> [lead_id |-> lead_id,
                               returned |-> saved.returned,
                               existing |-> saved.existing,
                               db_error |-> saved.db_error,
                               rolled_back |-> saved.rolled_back,
                               status |-> IF saved.returned = "True" THEN "success"
                                          ELSE IF saved.returned = "False"
                                          THEN "skipped" ELSE "aborted"]]
    /\ UNCHANGED <<loop_vars, VMS_TO_MONITOR, net, probe, pc, submitted, queue,
                   worker, future, yielded, results, down_servers, alerts, summaries>>

\* process_leads ends without an exception (line 184, 'No leads to
\* process', or line 254 after the last lead): its finally clause closes
\* the connection.
CloseConnection ==
    /\ pc = "geo"
    /\ db.open
    /\ db' = [db EXCEPT !.open = FALSE]
    /\ UNCHANGED <<loop_vars, VMS_TO_MONITOR, net, probe, pc, submitted, queue,
                   worker, future, yielded, results, down_servers, alerts, summaries>>

InitGeo ==
    /\ db \in {[table |-> t, open |-> TRUE, calls |-> 0, last |-> NoCall] :
                  t \in InitialTables}
    /\ pc = "geo"
    /\ VMS_TO_MONITOR = <<>>
    /\ net = <<>>
    /\ probe = IdleProbe
    /\ submitted = 0
    /\ queue = <<>>
    /\ worker = {}
    /\ future = <<>>
    /\ yielded = {}
    /\ results = <<>>
    /\ down_servers = <<>>
    /\ alerts = <<>>
    /\ summaries = <<>>
    /\ loop_vars = NoLocals

NextGeo == SaveCall \/ CloseConnection

SpecGeo == InitGeo /\ [][NextGeo]_vars

\* ------------------------------------- classifier on given probe returns

\* What the three probe functions can return.
PortReturns ==
    {[ok |-> FALSE, port |-> NoPort]}
    \cup {[ok |-> TRUE, port |-> COMMON_PORTS[i]] : i \in 1..Len(COMMON_PORTS)}

HttpReturns ==
    {[ok |-> FALSE, service |-> "None", requests |-> <<>>]}
    \cup {[ok |-> TRUE, service |-> http_service(pair), requests |-> <<>>] :
             pair \in HttpPairs}

\* comprehensive_server_check deciding on the returns held in `probe`.
Decide ==
    /\ pc = "classify"
    /\ ~probe.done
    /\ probe' = [probe EXCEPT !.done = TRUE,
                              !.verdict = classify(probe.port_scan,
                                                   probe.http_check,
                                                   probe.ping_ok)]
    /\ UNCHANGED <<db, loop_vars, VMS_TO_MONITOR, net, pc, submitted, queue, worker, future,
                   yielded, results, down_servers, alerts, summaries>>

InitClassify ==
    /\ probe \in {[NotProbed(ScenDead) EXCEPT !.port_scan = p, !.http_check = h,
                                              !.ping_ok = g] :
                     p \in PortReturns, h \in HttpReturns, g \in BOOLEAN}
    /\ pc = "classify"
    /\ VMS_TO_MONITOR = <<>>
    /\ net = <<>>
    /\ submitted = 0
    /\ queue = <<>>
    /\ worker = {}
    /\ future = <<>>
    /\ yielded = {}
    /\ results = <<>>
    /\ down_servers = <<>>
    /\ alerts = <<>>
    /\ summaries = <<>>
    /\ loop_vars = NoLocals
    /\ db = NoDb

NextClassify == Decide

SpecClassify == InitClassify /\ [][NextClassify]_vars

\* --------------------------------------------- the final summary alone

\* The network of a run with n targets that are not up, the first n of the
\* dict, and u targets that are: the former are all dead, all faulting, or
\* dead and faulting alternately.
SummaryScenario(n, u, kinds, i) ==
    IF i > n THEN ScenPortOpen
    ELSE IF kinds = "dead" \/ (kinds = "mixed" /\ i % 2 = 1) THEN ScenDead
    ELSE ScenFault

IsNotUp(result) == result.status # "UP"

\* Responses of a post that let the loop go on.
PostReturns == {PostOk, PostRejected, PostNetworkError}

\* What one whole iteration of the loop body (lines 311-338) appends for
\* the finished future `fut` of vm_name.  `crashed` says that the post of
\* line 319 raised PostCrashed, which the except clause catches; `resp` is
\* what the last post of the iteration answered.
iteration_appends(vm_name, fut, crashed, resp) ==
    IF fut.exception # "None"
    THEN [results |-> <<error_result(vm_name, fut.exception)>>,
          alerts |-> <<send_slack_notification(vm_name, ip_of(vm_name), "ERROR",
                           fut.exception, resp).post>>]
    ELSE IF fut.result.status = "UP"
    THEN [results |-> <<fut.result>>, alerts |-> <<>>]
    ELSE IF ~crashed
    THEN [results |-> <<fut.result>>,
          alerts |-> <<send_slack_notification(fut.result.name, fut.result.ip,
                           fut.result.status, fut.result.method, resp).post>>]
    ELSE LET first == send_slack_notification(fut.result.name, fut.result.ip,
                          fut.result.status, fut.result.method, PostCrashed)
         IN  [results |-> <<fut.result, error_result(vm_name, first.raised)>>,
              alerts |-> <<first.post,
                           send_slack_notification(vm_name, ip_of(vm_name),
                               "ERROR", first.raised, resp).post>>]

\* Every order in which as_completed can yield the futures of the targets
\* whose indices are in S: completion order, and for futures finished
\* before its first look the iteration order of a set.
RECURSIVE Orders(_)
Orders(S) ==
    IF S = {} THEN {<<>>}
    ELSE UNION {{<<i>> \o rest : rest \in Orders(S \ {i})} : i \in S}

\* The k-th target the loop collected.
collected(order, k) == vm_name_of(order[k])

\* results and alerts after the loop has collected the first k targets of
\* `order`.
RECURSIVE loop_appends(_, _, _, _)
loop_appends(order, crashes, resp, k) ==
    IF k = 0 THEN [results |-> <<>>, alerts |-> <<>>]
    ELSE LET before == loop_appends(order, crashes, resp, k - 1)
             t == collected(order, k)
             it == iteration_appends(t, future[t], k \in crashes, resp)
         IN  [results |-> before.results \o it.results,
              alerts |-> before.alerts \o it.alerts]

\* `result` after the loop has collected the first k targets of `order`:
\* what the last future.result() that did not raise returned.
RECURSIVE last_returned(_, _)
last_returned(order, k) ==
    IF k = 0 THEN NoResult
    ELSE IF future[collected(order, k)].exception = "None"
    THEN future[collected(order, k)].result
    ELSE last_returned(order, k - 1)

\* The loop's local variables after the loop: vm_name is the last target
\* collected and e is unbound.
locals_after_loop(order) ==
    IF order = <<>> THEN NoLocals
    ELSE [vm_name |-> collected(order, Len(order)),
          result |-> last_returned(order, Len(order)), e |-> "None"]

\* The state at line 342 of a run of n targets that are not up and u that
\* are, once the loop has collected every future, in any order, and the
\* pool is joined.  The post of line 319 raised PostCrashed in none, in the
\* first or in every iteration (for a DOWN result: the except clause then
\* added an ERROR result and a second alert); the other posts all answered
\* `resp`.
InitSummary ==
    \E n \in 0..MaxDown, u \in 0..MaxUp, kinds \in {"dead", "fault", "mixed"},
       crashes \in {{}, {1}, 1..(MaxDown + MaxUp)}, resp \in PostReturns :
      \E order \in Orders(1..(n + u)) :
        /\ VMS_TO_MONITOR = Targets(n + u)
        /\ net = [t \in Names |->
                    SummaryScenario(n, u, kinds,
                        CHOOSE i \in 1..(n + u) : vm_name_of(i) = t)]
        /\ probe = IdleProbe
        /\ pc = "summary"
        /\ submitted = n + u
        /\ queue = <<>>
        /\ worker = {}
        /\ future = [t \in Names |->
                        [state |-> "finished",
                         exception |-> check_single_vm(t, ip_of(t), net[t]).exception,
                         result |-> check_single_vm(t, ip_of(t), net[t]).result]]
        /\ yielded = Names
        /\ results = loop_appends(order, crashes, resp, n + u).results
        /\ down_servers = SelectSeq(results, IsNotUp)
        /\ alerts = loop_appends(order, crashes, resp, n + u).alerts
        /\ summaries = <<>>
        /\ loop_vars = locals_after_loop(order)
        /\ db = NoDb

NextSummary == Summary

SpecSummary == InitSummary /\ [][NextSummary]_vars

\* ================================================================ claims

\* Number of entries of a list of results or posts that carry the name t.
CountFor(seq, t) == Cardinality({i \in 1..Len(seq) : seq[i].name = t})

HasNonUpResult(t) == \E i \in 1..Len(results) : results[i].name = t /\ results[i].status # "UP"

\* A post that did not get through: a status other than 2xx or a network
\* error.
DeliveryFailed(resp) ==
    \/ resp.raised = "RequestException"
    \/ resp.raised = "None" /\ (resp.status_code < 200 \/ resp.status_code > 299)

\* The loop has finished its iteration for the future of t.
InLoopBody ==
    pc \in {"mark_down", "alert", "posting", "except", "except_mark",
            "except_alert", "except_posting"}

Handled(t) == t \in yielded /\ ~(InLoopBody /\ loop_vars.vm_name = t)

\* C1: fault isolation.  Once the loop has handled a target whose check
\* raised, results holds an ERROR result for it whose method is the
\* exception message, the run is not abandoned (the loop is never left on an
\* exception), and at the end every other target whose check returned has
\* its own UP or DOWN result.
C1_FaultIsolation ==
    \A t \in Names :
        (Handled(t) /\ future[t].exception # "None") =>
            /\ \E i \in 1..Len(results) :
                  results[i] = [name |-> t, ip |-> ip_of(t), status |-> "ERROR",
                                method |-> future[t].exception]
            /\ pc # "unwinding"
            /\ pc = "done" =>
                  \A o \in Names \ {t} :
                      future[o].exception = "None" =>
                          /\ future[o].result.status \in {"UP", "DOWN"}
                          /\ \E i \in 1..Len(results) : results[i] = future[o].result

\* C3: one result per target.  At no moment does results hold two entries
\* for one target, and when the run has reached its final summary it holds
\* exactly one entry for every configured target.
C3_OneResultPerTarget ==
    /\ \A t \in Names : CountFor(results, t) <= 1
    /\ pc \in {"summary", "done"} => \A t \in Names : CountFor(results, t) = 1

\* C4: per-target alerting.  Once the loop has handled a target,
\* send_slack_notification has been invoked exactly once for it when its
\* result is not UP and never when it is UP.
C4_AlertOncePerNonUp ==
    \A t \in Names :
        /\ Handled(t) =>
              CountFor(alerts, t) = IF HasNonUpResult(t) THEN 1 ELSE 0
        /\ t \notin yielded => CountFor(alerts, t) = 0

\* C5: summary trigger.  A run that has ended has posted exactly one
\* summary when some target was found non-UP, and none when every target is
\* UP or there are no targets; no run posts any alert for an empty target
\* set.
RunEnded == pc \in {"done", "aborted"}

C5_SummaryTrigger ==
    /\ Len(summaries) <= 1
    /\ RunEnded =>
          Len(summaries) =
              IF \E t \in Names : HasNonUpResult(t) THEN 1 ELSE 0
    /\ VMS_TO_MONITOR = <<>> => results = <<>> /\ alerts = <<>> /\ summaries = <<>>

\* C2: priority order of the classifier.  Whatever the three probes
\* return, the verdict is UP with the method of the first probe that
\* succeeded in the order port, HTTP, ping, and it is DOWN / "All checks
\* failed" exactly when none of them succeeded.
C2_PriorityOrder ==
    (pc = "classify" /\ probe.done) =>
        LET p == probe.port_scan
            h == probe.http_check
            g == probe.ping_ok
            v == probe.verdict
        IN  /\ p.ok => v = [status |-> "UP",
                            method |-> "TCP Port " \o ToString(p.port)]
            /\ (~p.ok /\ h.ok) => v = [status |-> "UP",
                                       method |-> "HTTP " \o h.service]
            /\ (~p.ok /\ ~h.ok /\ g) => v = [status |-> "UP", method |-> "ICMP Ping"]
            /\ (v = [status |-> "DOWN", method |-> "All checks failed"])
                   <=> (~p.ok /\ ~h.ok /\ ~g)

\* A classification in which the port scan failed while both HTTP and ping
\* succeeded: HTTP is reported.
C2_Witness ==
    /\ pc = "classify" /\ probe.done
    /\ ~probe.port_scan.ok /\ probe.ping_ok
    /\ probe.http_check.ok /\ probe.http_check.service = "https:8080"
    /\ probe.verdict = [status |-> "UP", method |-> "HTTP https:8080"]

\* The first min(10, n) of the n non-UP results are listed, in collection
\* order, and n is reported as the down count.
C6_ListsFirstTen ==
    \A k \in 1..Len(summaries) :
        LET m == summaries[k]
            nonup == SelectSeq(results, IsNotUp)
            n == Len(nonup)
        IN  /\ Len(m.fields) = IF n < 10 THEN n ELSE 10
            /\ \A i \in 1..Len(m.fields) :
                  m.fields[i] = [name |-> nonup[i].name, ip |-> nonup[i].ip,
                                 status |-> nonup[i].status]
            /\ m.down_count = n

\* The reported total is the number of checked targets.
C6_TrueTotal ==
    \A k \in 1..Len(summaries) :
        summaries[k].total_servers = Len(VMS_TO_MONITOR)

\* C6: summary truncation.  Every summary message lists the first
\* min(10, n) of the n non-UP results, in collection order, and reports n
\* and the number of checked targets as its counts.
C6_SummaryTruncation == C6_ListsFirstTen /\ C6_TrueTotal

\* A summary of more than 10 non-UP results: 10 are listed and n is
\* reported.
C6_ElevenOrMore ==
    /\ Len(summaries) = 1
    /\ summaries[1].down_count > 10
    /\ Len(summaries[1].fields) = 10

\* C7: alert delivery is fire-and-forget.  A post that fails with a
\* non-2xx status or a network error is never followed by another post for
\* the same target; the step in which it fails changes no result, sends
\* nothing and returns to the loop; a failed summary post changes no result
\* and ends the run normally; and a run that ends normally has attempted an
\* alert, answered or failed, for every non-UP target and the summary.
C7_NoRetry ==
    \A i \in 1..Len(alerts) : \A j \in 1..Len(alerts) :
        (i < j /\ alerts[i].name = alerts[j].name) =>
            ~DeliveryFailed(alerts[i].response)

C7_AllAttempted ==
    pc = "done" =>
        /\ \A t \in Names : HasNonUpResult(t) => CountFor(alerts, t) >= 1
        /\ \A i \in 1..Len(alerts) : alerts[i].response # PostPending
        /\ (\E t \in Names : HasNonUpResult(t)) => Len(summaries) = 1

C7_FailedAlertStep ==
    \A k \in 1..Len(alerts) :
        (/\ k <= Len(alerts')
         /\ alerts[k].response = PostPending
         /\ DeliveryFailed(alerts'[k].response)) =>
            /\ Len(alerts') = Len(alerts)
            /\ results' = results
            /\ down_servers' = down_servers
            /\ results[Len(results)].name = alerts[k].name
            /\ results[Len(results)].status = alerts[k].status
            /\ pc' = "collect"

C7_FailedSummaryStep ==
    (Len(summaries') > Len(summaries)
        /\ DeliveryFailed(summaries'[Len(summaries')].response)) =>
            /\ Len(summaries') = Len(summaries) + 1
            /\ results' = results
            /\ alerts' = alerts
            /\ pc' = "done"

C7_FireAndForget ==
    /\ [](C7_NoRetry /\ C7_AllAttempted)
    /\ [][C7_FailedAlertStep /\ C7_FailedSummaryStep]_vars

\* A finished run in which the alerts of two targets and the summary all
\* failed to be delivered.
C7_Witness ==
    /\ pc = "done"
    /\ Len(alerts) = 2
    /\ alerts[1].name # alerts[2].name
    /\ alerts[1].response = PostRejected
    /\ alerts[2].response = PostNetworkError
    /\ Len(results) = 2
    /\ Len(summaries) = 1
    /\ DeliveryFailed(summaries[1].response)

\* The pairs named by the specification of the HTTP probe, and the pairs
\* the two loops visit.
FivePairs ==
    <<<<"http", 80>>, <<"https", 443>>, <<"http", 8080>>, <<"http", 3000>>,
      <<"http", 8000>>>>

TenPairs ==
    <<<<"http", 80>>, <<"http", 443>>, <<"http", 8080>>, <<"http", 3000>>,
      <<"http", 8000>>, <<"https", 80>>, <<"https", 443>>, <<"https", 8080>>,
      <<"https", 3000>>, <<"https", 8000>>>>

Responds(http, pair) == ~http[pair].raised /\ http[pair].status_code < 500

FirstResponding(http, order) ==
    IF \E k \in 1..Len(order) : Responds(http, order[k])
    THEN CHOOSE k \in 1..Len(order) :
            /\ Responds(http, order[k])
            /\ \A j \in 1..(k - 1) : ~Responds(http, order[j])
    ELSE 0

\* The probe that tries the pairs of `order` one after the other and stops
\* at the first that responds with a status below 500.
ProbeOver(http, order) ==
    LET k == FirstResponding(http, order)
    IN  IF k = 0
        THEN [ok |-> FALSE, service |-> "None", requests |-> order]
        ELSE [ok |-> TRUE,
              service |-> order[k][1] \o ":" \o ToString(order[k][2]),
              requests |-> SubSeq(order, 1, k)]

\* C8 as stated: the HTTP probe requests only the five pairs http:80,
\* https:443, http:8080, http:3000, http:8000, in that order, succeeds with
\* the first of them that answers below 500 and fails exactly when all five
\* error or answer 500 or more.
C8_FivePairs ==
    (pc = "probe" /\ probe.done) =>
        probe.http_check = ProbeOver(probe.env.http, FivePairs)

\* C8 as amended: the HTTP probe requests the ten pairs of {http, https}
\* with {80, 443, 8080, 3000, 8000}, every port with http before any with
\* https, succeeds with the first of them that answers below 500 and fails
\* exactly when all ten error or answer 500 or more.
C8_TenPairs ==
    (pc = "probe" /\ probe.done) =>
        probe.http_check = ProbeOver(probe.env.http, TenPairs)

\* A probe that reaches its eighth request, https:8080, after errors and a
\* 500, and succeeds there with a 499.
C8_Witness ==
    /\ pc = "probe" /\ probe.done
    /\ probe.env.http[<<"http", 80>>] = HttpServerError
    /\ probe.env.http[<<"https", 443>>] = HttpRaised
    /\ probe.env.http[<<"https", 8080>>] = HttpClientError
    /\ probe.http_check.ok
    /\ probe.http_check.service = "https:8080"
    /\ Len(probe.http_check.requests) = 8

\* C9: the ping probe succeeds exactly when the ping command exits with
\* code 0, so an address that answers only ping is classified UP by "ICMP
\* Ping".
C9_PingExitCode ==
    (pc = "probe" /\ probe.done) =>
        /\ probe.ping_ok
               = (~probe.env.ping.raised /\ probe.env.ping.returncode = 0)
        /\ (/\ ~probe.port_scan.ok
            /\ ~probe.http_check.ok
            /\ ~probe.env.ping.raised
            /\ probe.env.ping.returncode = 0)
               => probe.verdict = [status |-> "UP", method |-> "ICMP Ping"]

\* C10: bounded fan-out.  With more targets than the pool has threads,
\* never more than max_workers (10) checks are in flight; a check starts
\* only while fewer than that many are in flight, so the further targets
\* wait; every check in flight is held by a thread, and a thread stays on
\* its target until that target's future is finished.
InFlight == {t \in Names : future[t].state = "running"}

C10_StartsBelowLimit ==
    \A t \in Names :
        (future[t].state # "running" /\ future'[t].state = "running") =>
            /\ Cardinality(InFlight) < max_workers
            /\ future[t].state = "pending"

C10_RunsToCompletion ==
    \A t \in worker :
        \/ t \in worker' /\ future'[t].state = "running"
        \/ t \notin worker' /\ future'[t].state = "finished"

C10_BoundedFanOut ==
    /\ [](Cardinality(InFlight) <= max_workers /\ InFlight = worker)
    /\ [][C10_StartsBelowLimit /\ C10_RunsToCompletion]_vars

\* Every thread of the pool is busy while a further target waits in the
\* queue.
C10_Witness ==
    /\ Cardinality(InFlight) = max_workers
    /\ queue # <<>>
    /\ future[Head(queue)].state = "pending"

\* C11: join before summary.  While the main thread is at or past the final
\* summary, and whenever a summary has been posted, every target's future
\* is finished and collected, no thread runs a check, nothing is queued and
\* no per-target alert is unanswered;
\* the counts of a posted summary are those of the complete lists; and once
\* a summary has been posted no per-target alert is sent and no result is
\* added.
AllJoined ==
    /\ submitted = Len(VMS_TO_MONITOR)
    /\ yielded = Names
    /\ \A t \in Names : future[t].state = "finished"
    /\ worker = {}
    /\ queue = <<>>
    /\ \A i \in 1..Len(alerts) : alerts[i].response # PostPending

C11_SummaryAfterJoin ==
    (pc \in {"summary", "done"} \/ summaries # <<>>) =>
        /\ AllJoined
        /\ \A k \in 1..Len(summaries) :
              /\ summaries[k].total_servers = Len(results)
              /\ summaries[k].down_count = Len(down_servers)

C11_NothingAfterSummary ==
    (summaries # <<>> \/ summaries' # <<>>) =>
        /\ alerts' = alerts
        /\ results' = results
        /\ down_servers' = down_servers
        /\ future' = future

C11_JoinBeforeSummary ==
    /\ []C11_SummaryAfterJoin
    /\ [][C11_NothingAfterSummary]_vars

\* A run of two targets, each with its own alert, whose summary was posted
\* after both.
C11_Witness ==
    /\ Len(summaries) = 1
    /\ Len(alerts) = 2
    /\ alerts[1].name # alerts[2].name
    /\ summaries[1].down_count = 2
    /\ summaries[1].total_servers = 2

\* Number of 'lead' rows of the table for one id.
LeadRows(table, id) ==
    Cardinality({i \in 1..Len(table) : table[i].id = id /\ table[i].type = "lead"})

C12_AtMostOneLeadRow ==
    \A id \in 1..MaxLeadId : LeadRows(db.table, id) <= 1

C12_ExistingIsSkipped ==
    (db'.calls = db.calls + 1 /\ LeadRows(db.table, db'.last.lead_id) >= 1) =>
        db'.table = db.table /\ db'.last.returned = "False"

C12_TrueMeansInserted ==
    (db'.calls = db.calls + 1 /\ db'.last.returned = "True") =>
        /\ LeadRows(db.table, db'.last.lead_id) = 0
        /\ Len(db'.table) = Len(db.table) + 1
        /\ SubSeq(db'.table, 1, Len(db.table)) = db.table
        /\ db'.table[Len(db'.table)].id = db'.last.lead_id
        /\ db'.table[Len(db'.table)].type = "lead"

C12_ErrorReturnsFalse ==
    (db'.calls = db.calls + 1 /\ db'.last.db_error) =>
        /\ db'.table = db.table
        /\ db'.last.rolled_back
        /\ db'.last.returned = "False"

\* C12: save_geolocation saves only if absent.  The table never holds two
\* 'lead' rows for one id; a call for an id that has a 'lead' row inserts
\* nothing and returns False; a call returns True only when it appended
\* and committed the row of its lead; and a call that meets a database
\* error rolls back, leaves the table as it was and returns False.
C12_SaveOnlyIfAbsent ==
    /\ []C12_AtMostOneLeadRow
    /\ [][/\ C12_ExistingIsSkipped
          /\ C12_TrueMeansInserted
          /\ C12_ErrorReturnsFalse]_vars

====
